---- MODULE Spec2Model ----
(***************************************************************************)
(* Model of the upload registry and orchestrator of fox-celebration-uploads *)
(* (atoms/uploads.ts, atoms/uploadStateMachine.ts, lib/localStorage.ts).    *)
(*                                                                          *)
(* The registry is a derived atom: its value is recomputed from the         *)
(* persisted projection (serializableUploadsAtom) and the in-memory file    *)
(* cache on every read, and every write goes through a projection that      *)
(* keeps only the serializable fields.                                      *)
(***************************************************************************)
EXTENDS Integers, Sequences, FiniteSets, TLC

\* ---------------------------------------------------------------------
\* Bounds
\* ---------------------------------------------------------------------

\* number of ids crypto.randomUUID() hands out in one behaviour
MaxIds == 2
\* number of asynchronous per-record operations in flight at once
MaxTasks == 2
\* number of batch calls (prepareAll, startAll, retryAllFailed) in flight
MaxCalls == 2
\* number of operations the user performs in one behaviour
MaxOps == 3
\* number of times the page is reloaded in one behaviour
MaxRestarts == 1

\* ---------------------------------------------------------------------
\* Values
\* ---------------------------------------------------------------------

\* JavaScript undefined
Undef == "undefined"

UploadStates ==
  {"idle", "queued", "reserving", "ready", "uploading", "success", "error",
   "canceled", "retrying"}

UploadEvents ==
  {"ADD_FILE", "START_RESERVE", "RESERVE_SUCCESS", "RESERVE_ERROR",
   "START_UPLOAD", "UPLOAD_PROGRESS", "UPLOAD_SUCCESS", "UPLOAD_ERROR",
   "CANCEL", "RETRY", "REMOVE"}

\* the statuses a registry record can carry (UploadStatus)
UploadStatuses ==
  {"queued", "reserving", "ready", "uploading", "success", "error", "canceled"}

\* error messages
MsgInterrupted == "Upload was interrupted when the page refreshed. Please re-add this file to continue."
MsgLost == "This file was lost when the page refreshed due to browser security. Please re-add it to upload."
MsgCannotRetry == "Cannot retry - file was lost during page refresh. Please re-add the file."
\* messages carried by backend failures (Error.message of the rejected call)
MsgApiError == "API Error"
MsgUploadFailed == "Upload failed"

\* error?.includes('page refresh')
IncludesPageRefresh(msg) == msg \in {MsgInterrupted, MsgLost, MsgCannotRetry}

\* ---------------------------------------------------------------------
\* uploadStateMachine.ts
\* ---------------------------------------------------------------------

\* STATE_TRANSITIONS, as a function from state to a function from the
\* events valid in that state to the next state
STATE_TRANSITIONS ==
  [s \in UploadStates |->
    CASE s = "idle" -> [e \in {"ADD_FILE"} |-> "queued"]
      [] s = "queued" ->
           [e \in {"START_RESERVE", "REMOVE", "CANCEL"} |->
              CASE e = "START_RESERVE" -> "reserving"
                [] e = "REMOVE" -> "idle"
                [] e = "CANCEL" -> "canceled"]
      [] s = "reserving" ->
           [e \in {"RESERVE_SUCCESS", "RESERVE_ERROR", "CANCEL", "REMOVE"} |->
              CASE e = "RESERVE_SUCCESS" -> "ready"
                [] e = "RESERVE_ERROR" -> "error"
                [] e = "CANCEL" -> "canceled"
                [] e = "REMOVE" -> "idle"]
      [] s = "ready" ->
           [e \in {"START_UPLOAD", "CANCEL", "REMOVE"} |->
              CASE e = "START_UPLOAD" -> "uploading"
                [] e = "CANCEL" -> "canceled"
                [] e = "REMOVE" -> "idle"]
      [] s = "uploading" ->
           [e \in {"UPLOAD_PROGRESS", "UPLOAD_SUCCESS", "UPLOAD_ERROR", "CANCEL"} |->
              CASE e = "UPLOAD_PROGRESS" -> "uploading"
                [] e = "UPLOAD_SUCCESS" -> "success"
                [] e = "UPLOAD_ERROR" -> "error"
                [] e = "CANCEL" -> "canceled"]
      [] s = "success" -> [e \in {"REMOVE"} |-> "idle"]
      [] s = "error" ->
           [e \in {"RETRY", "REMOVE"} |->
              CASE e = "RETRY" -> "retrying"
                [] e = "REMOVE" -> "idle"]
      [] s = "canceled" ->
           [e \in {"RETRY", "REMOVE"} |->
              CASE e = "RETRY" -> "retrying"
                [] e = "REMOVE" -> "idle"]
      [] s = "retrying" ->
           [e \in {"START_RESERVE", "RESERVE_SUCCESS", "START_UPLOAD",
                   "UPLOAD_SUCCESS", "UPLOAD_ERROR", "CANCEL", "REMOVE"} |->
              CASE e = "START_RESERVE" -> "reserving"
                [] e = "RESERVE_SUCCESS" -> "ready"
                [] e = "START_UPLOAD" -> "uploading"
                [] e = "UPLOAD_SUCCESS" -> "success"
                [] e = "UPLOAD_ERROR" -> "error"
                [] e = "CANCEL" -> "canceled"
                [] e = "REMOVE" -> "idle"]]

canTransition(currentState, event) ==
  event \in DOMAIN STATE_TRANSITIONS[currentState]

\* a slip in the guard: every event is accepted when the state lists REMOVE
getNextState_mut(currentState, event) ==
  IF canTransition(currentState, event)
    THEN STATE_TRANSITIONS[currentState][event]
    ELSE IF event = "REMOVE" THEN "idle" ELSE currentState

getNextState(currentState, event) ==
  IF ~canTransition(currentState, event)
    THEN currentState
    ELSE STATE_TRANSITIONS[currentState][event]

\* the fields of UploadContext that events carry as payload
\* (id, file and fileSize are set at construction and never sent)
PayloadKeys == {"progress", "error", "remoteId", "uploadUrl", "method"}

\* { ...context, ...payload }
Merge(context, payload) ==
  [k \in DOMAIN context \cup DOMAIN payload |->
     IF k \in DOMAIN payload THEN payload[k] ELSE context[k]]

\* UploadStateMachine.send: the state, the context and the returned flag
\* after sending event with an optional payload; notified tells whether the
\* listeners were invoked
send(state, context, event, hasPayload, payload) ==
  LET nextState == getNextState(state, event) IN
  IF nextState = state /\ ~hasPayload
    THEN [state |-> state, context |-> context, ret |-> FALSE,
          notified |-> FALSE]
    ELSE [state |-> nextState,
          context |-> IF hasPayload THEN Merge(context, payload) ELSE context,
          ret |-> TRUE, notified |-> TRUE]

\* createUploadStateMachine(file, id): a file is modelled by its size
createUploadStateMachine(file) ==
  [state |-> "idle",
   context |-> [file |-> file, fileSize |-> file, progress |-> 0,
                error |-> Undef, remoteId |-> Undef, uploadUrl |-> Undef,
                method |-> Undef]]

isPlaceholderState(state, context) ==
  /\ state = "error"
  /\ context.file = 0
  /\ context.fileSize > 0
  /\ IncludesPageRefresh(context.error)

\* stateMachine.send(e1); stateMachine.send(e2, payload); ... in order;
\* each element of evs is <<event, hasPayload, payload>>
RECURSIVE Sends(_, _)
Sends(m, evs) ==
  IF evs = << >> THEN m
  ELSE LET r == send(m.state, m.context, Head(evs)[1], Head(evs)[2], Head(evs)[3])
       IN Sends([state |-> r.state, context |-> r.context], Tail(evs))

\* ---------------------------------------------------------------------
\* uploads.ts: the registry
\* ---------------------------------------------------------------------

Ids == 1..MaxIds

\* fileCache.get(id) === undefined
NoFile == -1
\* new File([], ...): the zero-byte placeholder
PlaceholderFile == 0
\* sizes of the files the user selects
FileSizes == {1000}

\* no AbortController
NoController == 0

\* the percentages reported by onUploadProgress
ProgressValues == {45}

\* an event without payload
NoPayload == << >>
Ev(e) == <<e, FALSE, NoPayload>>
EvP(e, payload) == <<e, TRUE, payload>>

DestOf(item) ==
  [remoteId |-> item.remoteId, uploadUrl |-> item.uploadUrl,
   method |-> item.method]

\* a replay that sends CANCEL to the fresh machine of a canceled record
\* without ADD_FILE before it
ReplayEvents_mut(item) ==
  CASE item.status = "queued" -> <<Ev("ADD_FILE")>>
    [] item.status = "reserving" -> <<Ev("ADD_FILE"), Ev("START_RESERVE")>>
    [] item.status = "ready" ->
         <<Ev("ADD_FILE"), Ev("START_RESERVE"),
           EvP("RESERVE_SUCCESS", DestOf(item))>>
    [] item.status = "uploading" ->
         <<Ev("ADD_FILE"), Ev("START_RESERVE"),
           EvP("RESERVE_SUCCESS", DestOf(item)), Ev("START_UPLOAD")>>
    [] item.status = "success" ->
         <<Ev("ADD_FILE"), Ev("START_RESERVE"),
           EvP("RESERVE_SUCCESS", DestOf(item)), Ev("START_UPLOAD"),
           Ev("UPLOAD_SUCCESS")>>
    [] item.status = "error" ->
         <<Ev("ADD_FILE"), Ev("START_RESERVE"),
           EvP("RESERVE_ERROR", [error |-> item.error])>>
    [] item.status = "canceled" -> <<Ev("CANCEL")>>

\* the events uploadsAtom's read replays on a fresh machine for a record
\* whose file is in the cache
ReplayEvents(item) ==
  CASE item.status = "queued" -> <<Ev("ADD_FILE")>>
    [] item.status = "reserving" -> <<Ev("ADD_FILE"), Ev("START_RESERVE")>>
    [] item.status = "ready" ->
         <<Ev("ADD_FILE"), Ev("START_RESERVE"),
           EvP("RESERVE_SUCCESS", DestOf(item))>>
    [] item.status = "uploading" ->
         <<Ev("ADD_FILE"), Ev("START_RESERVE"),
           EvP("RESERVE_SUCCESS", DestOf(item)), Ev("START_UPLOAD")>>
    [] item.status = "success" ->
         <<Ev("ADD_FILE"), Ev("START_RESERVE"),
           EvP("RESERVE_SUCCESS", DestOf(item)), Ev("START_UPLOAD"),
           Ev("UPLOAD_SUCCESS")>>
    [] item.status = "error" ->
         <<Ev("ADD_FILE"), Ev("START_RESERVE"),
           EvP("RESERVE_ERROR", [error |-> item.error])>>
    [] item.status = "canceled" -> <<Ev("ADD_FILE"), Ev("CANCEL")>>

\* the message of a record whose file is not in the cache
PlaceholderMessage(status) ==
  IF status \in {"uploading", "reserving"} THEN MsgInterrupted ELSE MsgLost

\* a read that keeps the persisted status of a record whose file is gone
ReadItem_mut(item, file) ==
  IF file # NoFile
    THEN [file |-> file, fileSize |-> item.fileSize,
          progress |-> item.progress, status |-> item.status,
          error |-> item.error, remoteId |-> item.remoteId,
          uploadUrl |-> item.uploadUrl, method |-> item.method,
          controller |-> NoController,
          stateMachine |-> Sends(createUploadStateMachine(file),
                                 ReplayEvents(item))]
    ELSE LET errorMessage == PlaceholderMessage(item.status) IN
         [file |-> PlaceholderFile, fileSize |-> item.fileSize,
          progress |-> item.progress, status |-> item.status,
          error |-> errorMessage, remoteId |-> item.remoteId,
          uploadUrl |-> item.uploadUrl, method |-> item.method,
          controller |-> NoController,
          stateMachine |->
            Sends(createUploadStateMachine(PlaceholderFile),
                  <<Ev("ADD_FILE"), Ev("START_RESERVE"),
                    EvP("RESERVE_ERROR", [error |-> errorMessage])>>)]

\* uploadsAtom (read) for one persisted item: the live record built from the
\* persisted projection and the cached file
ReadItem(item, file) ==
  IF file # NoFile
    THEN [file |-> file, fileSize |-> item.fileSize,
          progress |-> item.progress, status |-> item.status,
          error |-> item.error, remoteId |-> item.remoteId,
          uploadUrl |-> item.uploadUrl, method |-> item.method,
          controller |-> NoController,
          stateMachine |-> Sends(createUploadStateMachine(file),
                                 ReplayEvents(item))]
    ELSE LET errorMessage == PlaceholderMessage(item.status) IN
         [file |-> PlaceholderFile, fileSize |-> item.fileSize,
          progress |-> item.progress, status |-> "error",
          error |-> errorMessage, remoteId |-> item.remoteId,
          uploadUrl |-> item.uploadUrl, method |-> item.method,
          controller |-> NoController,
          stateMachine |->
            Sends(createUploadStateMachine(PlaceholderFile),
                  <<Ev("ADD_FILE"), Ev("START_RESERVE"),
                    EvP("RESERVE_ERROR", [error |-> errorMessage])>>)]

\* uploadsAtom (read): R is the pair of the persisted projection R.ser
\* (serializableUploadsAtom) and the file cache R.cache
Uploads(R) == [id \in DOMAIN R.ser |-> ReadItem(R.ser[id], R.cache[id])]

\* a projection that leaves the upload URL out
Serialize_mut(upload) ==
  [fileSize |-> upload.file, progress |-> upload.progress,
   status |-> upload.status, error |-> upload.error,
   remoteId |-> upload.remoteId, uploadUrl |-> Undef,
   method |-> upload.method]

\* the serializable projection of one live record (file name, type and
\* modification time are carried along unchanged and left out)
Serialize(upload) ==
  [fileSize |-> upload.file, progress |-> upload.progress,
   status |-> upload.status, error |-> upload.error,
   remoteId |-> upload.remoteId, uploadUrl |-> upload.uploadUrl,
   method |-> upload.method]

\* uploadsAtom (write): caches every file and replaces the persisted
\* projection by the projection of newUploads
SetUploads(R, newUploads) ==
  [ser |-> [id \in DOMAIN newUploads |-> Serialize(newUploads[id])],
   cache |-> [id \in Ids |->
                IF id \in DOMAIN newUploads THEN newUploads[id].file
                ELSE R.cache[id]]]

\* a merge without the existence check: { ...undefined, ...updates } is
\* written for an unknown id
updateUpload_mut(R, id, updates) ==
  LET s == Uploads(R)
      blank == [file |-> PlaceholderFile, fileSize |-> 0, progress |-> 0,
                status |-> "queued", error |-> Undef, remoteId |-> Undef,
                uploadUrl |-> Undef, method |-> Undef,
                controller |-> NoController,
                stateMachine |-> createUploadStateMachine(PlaceholderFile)]
  IN SetUploads(R, [i \in DOMAIN s \cup {id} |->
                      IF i # id THEN s[i]
                      ELSE Merge(IF id \in DOMAIN s THEN s[id] ELSE blank,
                                 updates)])

\* updateUploadAtom
updateUpload(R, id, updates) ==
  LET s == Uploads(R) IN
  IF id \in DOMAIN s
    THEN SetUploads(R, [s EXCEPT ![id] = Merge(s[id], updates)])
    ELSE R

\* isPlaceholderFile: every record read from the registry carries a machine
isPlaceholderFile(upload) ==
  isPlaceholderState(upload.stateMachine.state, upload.stateMachine.context)

\* hasPlaceholderFilesAtom
hasPlaceholderFiles(uploads) ==
  \E id \in DOMAIN uploads : isPlaceholderFile(uploads[id])

\* readyUploadsAtom: the ids of the records startAll transmits
readyUploads(R) ==
  {id \in DOMAIN R.ser :
     LET upload == Uploads(R)[id] IN
       /\ upload.uploadUrl # Undef
       /\ upload.status # "error"
       /\ ~isPlaceholderFile(upload)}

\* an intake guard that forgets the finished uploads
uploadsStarted_mut(R) ==
  \E id \in DOMAIN R.ser : Uploads(R)[id].status \in {"reserving", "uploading"}

\* the intake guard of addFilesAtom and prepareUploadsAtom
uploadsStarted(R) ==
  LET uploadValues == Uploads(R)
      inProgressFiles ==
        Cardinality({id \in DOMAIN uploadValues :
                       uploadValues[id].status \in {"reserving", "uploading"}})
      successFiles ==
        Cardinality({id \in DOMAIN uploadValues :
                       uploadValues[id].status = "success"})
  IN inProgressFiles > 0 \/ successFiles > 0

\* a sum that keeps the progress of the records that failed
RECURSIVE progressSum_mut(_, _)
progressSum_mut(uploads, ids) ==
  IF ids = {} THEN 0
  ELSE LET id == CHOOSE x \in ids : TRUE
           upload == uploads[id]
       IN progressSum_mut(uploads, ids \ {id}) +
            (IF upload.status = "success" THEN 100
             ELSE IF upload.status \in {"uploading", "error"}
               THEN upload.progress
             ELSE 0)

\* overallProgressAtom: uploads.reduce(...) over the records ids
RECURSIVE progressSum(_, _)
progressSum(uploads, ids) ==
  IF ids = {} THEN 0
  ELSE LET id == CHOOSE x \in ids : TRUE
           upload == uploads[id]
       IN progressSum(uploads, ids \ {id}) +
            (IF upload.status = "success" THEN 100
             ELSE IF upload.status = "uploading" THEN upload.progress
             ELSE 0)

\* Math.round(a / b) for a >= 0 and b > 0: halves round up
MathRound(a, b) == (2 * a + b) \div (2 * b)

\* overallProgressAtom: context.overallProgress
overallProgress(R) ==
  LET uploads == Uploads(R)
      totalFiles == Cardinality(DOMAIN uploads)
  IN IF totalFiles > 0
       THEN MathRound(progressSum(uploads, DOMAIN uploads), totalFiles)
       ELSE 0

\* ---------------------------------------------------------------------
\* The session machine (overallProgressStateMachine.ts)
\* ---------------------------------------------------------------------

OverallStates ==
  {"idle", "preparing", "ready", "uploading", "completed", "partial",
   "failed", "canceled"}

OverallEvents ==
  {"FILES_ADDED", "PREPARATION_STARTED", "PREPARATION_COMPLETED",
   "UPLOAD_STARTED", "UPLOAD_PROGRESS", "ALL_COMPLETED", "SOME_FAILED",
   "ALL_FAILED", "ALL_CANCELED", "RESET"}

\* OVERALL_STATE_TRANSITIONS: state -> the (event, target) pairs it lists
OVERALL_STATE_TRANSITIONS ==
  [state \in OverallStates |->
     CASE state = "idle" -> {<<"FILES_ADDED", "preparing">>}
       [] state = "preparing" ->
            {<<"PREPARATION_COMPLETED", "ready">>, <<"SOME_FAILED", "partial">>,
             <<"ALL_FAILED", "failed">>, <<"ALL_CANCELED", "canceled">>,
             <<"RESET", "idle">>}
       [] state = "ready" ->
            {<<"UPLOAD_STARTED", "uploading">>, <<"SOME_FAILED", "partial">>,
             <<"ALL_FAILED", "failed">>, <<"ALL_CANCELED", "canceled">>,
             <<"RESET", "idle">>}
       [] state = "uploading" ->
            {<<"UPLOAD_PROGRESS", "uploading">>, <<"ALL_COMPLETED", "completed">>,
             <<"SOME_FAILED", "partial">>, <<"ALL_FAILED", "failed">>,
             <<"ALL_CANCELED", "canceled">>, <<"RESET", "idle">>}
       [] state = "completed" ->
            {<<"RESET", "idle">>, <<"FILES_ADDED", "preparing">>}
       [] state = "partial" ->
            {<<"UPLOAD_STARTED", "uploading">>, <<"ALL_COMPLETED", "completed">>,
             <<"ALL_FAILED", "failed">>, <<"ALL_CANCELED", "canceled">>,
             <<"RESET", "idle">>, <<"FILES_ADDED", "preparing">>}
       [] state = "failed" ->
            {<<"UPLOAD_STARTED", "uploading">>, <<"SOME_FAILED", "partial">>,
             <<"ALL_COMPLETED", "completed">>, <<"ALL_CANCELED", "canceled">>,
             <<"RESET", "idle">>, <<"FILES_ADDED", "preparing">>}
       [] state = "canceled" ->
            {<<"UPLOAD_STARTED", "uploading">>, <<"ALL_COMPLETED", "completed">>,
             <<"SOME_FAILED", "partial">>, <<"ALL_FAILED", "failed">>,
             <<"RESET", "idle">>, <<"FILES_ADDED", "preparing">>}]

canTransitionOverall(currentState, event) ==
  \E row \in OVERALL_STATE_TRANSITIONS[currentState] : row[1] = event

getNextOverallState(currentState, event) ==
  IF ~canTransitionOverall(currentState, event) THEN currentState
  ELSE (CHOOSE row \in OVERALL_STATE_TRANSITIONS[currentState] :
          row[1] = event)[2]

\* the number of records of uploads with the given status
CountStatus(uploads, status) ==
  Cardinality({id \in DOMAIN uploads : uploads[id].status = status})

\* overallProgressAtom: the context computed from the records (the fields
\* the session machine reads)
SessionContext(uploads) ==
  [totalFiles |-> Cardinality(DOMAIN uploads),
   completedFiles |-> CountStatus(uploads, "success"),
   failedFiles |-> CountStatus(uploads, "error"),
   canceledFiles |-> CountStatus(uploads, "canceled"),
   uploadingFiles |-> CountStatus(uploads, "uploading"),
   preparingFiles |-> CountStatus(uploads, "reserving"),
   readyFiles |-> CountStatus(uploads, "ready")]

\* a precedence that never resets
determineEventFromContext_mut(state, c) ==
  IF state = "idle" /\ c.totalFiles > 0 THEN "FILES_ADDED" ELSE "null"

\* determineEventFromContext: the event for context c in state, "null" for
\* none
determineEventFromContext(state, c) ==
  IF c.totalFiles = 0
    THEN (IF state # "idle" THEN "RESET" ELSE "null")
  ELSE IF state = "idle" /\ c.totalFiles > 0 THEN "FILES_ADDED"
  ELSE IF c.canceledFiles = c.totalFiles
    THEN (IF state # "canceled" THEN "ALL_CANCELED" ELSE "null")
  ELSE IF c.completedFiles = c.totalFiles
    THEN (IF state # "completed" THEN "ALL_COMPLETED" ELSE "null")
  ELSE IF c.totalFiles - c.canceledFiles > 0
          /\ c.failedFiles = c.totalFiles - c.canceledFiles
    THEN (IF state # "failed" THEN "ALL_FAILED" ELSE "null")
  ELSE IF c.completedFiles > 0 /\ (c.failedFiles > 0 \/ c.canceledFiles > 0)
    THEN (IF state # "partial" THEN "SOME_FAILED" ELSE "null")
  ELSE IF c.uploadingFiles > 0
    THEN (IF state \in {"ready", "partial", "failed"} THEN "UPLOAD_STARTED"
          ELSE IF state # "uploading" THEN "UPLOAD_PROGRESS" ELSE "null")
  ELSE IF c.preparingFiles > 0
    THEN (IF state # "preparing" THEN "PREPARATION_STARTED" ELSE "null")
  ELSE IF c.totalFiles - c.completedFiles - c.failedFiles - c.canceledFiles
            - c.uploadingFiles - c.preparingFiles = c.totalFiles
    THEN (IF state # "ready" THEN "PREPARATION_COMPLETED" ELSE "null")
  ELSE "null"

\* OverallProgressStateMachine.send: the state after event
sendOverall(state, event) ==
  IF event = "null" THEN state ELSE getNextOverallState(state, event)

\* updateFromUploads: the state after the context c has been taken in
updateFromUploads(state, c) ==
  sendOverall(state, determineEventFromContext(state, c))

\* OverallProgressStateMachine.canAddFiles
canAddFiles(state) ==
  state \in {"idle", "completed", "partial", "failed", "canceled"}

\* the live records a caller can hand to uploadsAtom's write: any status and
\* progress, with or without a destination and an error, the file a selected
\* one or the zero-byte placeholder
RtUploads ==
  { [file |-> file, fileSize |-> file, progress |-> progress,
     status |-> status, error |-> error, remoteId |-> d.remoteId,
     uploadUrl |-> d.uploadUrl, method |-> d.method,
     controller |-> NoController,
     stateMachine |-> createUploadStateMachine(file)] :
      file \in FileSizes \cup {PlaceholderFile},
      progress \in {0} \cup ProgressValues,
      status \in UploadStatuses,
      error \in {Undef, MsgApiError},
      d \in {[remoteId |-> Undef, uploadUrl |-> Undef, method |-> Undef],
             [remoteId |-> "remote-id", uploadUrl |-> "upload-url",
              method |-> "PUT"]} }

\* registries of one record, and of two records of which the first is
\* uploading
RtRegistries ==
  { [id \in {i} |-> u] : i \in Ids, u \in RtUploads } \cup
  { [id \in {i, j} |-> IF id = i THEN u ELSE v] :
      i \in Ids, j \in Ids, u \in {w \in RtUploads : w.status = "uploading"},
      v \in RtUploads }

\* rt before any registry was written
NoRoundTrip == [done |-> FALSE, in |-> << >>, out |-> << >>]

\* ---------------------------------------------------------------------
\* State
\* ---------------------------------------------------------------------

VARIABLES
  ser,       \* serializableUploadsAtom / localStorage: id -> persisted item
  cache,     \* fileCache: id -> file (its size) or NoFile
  tasks,     \* the per-record asynchronous operations in flight, by slot
  calls,     \* the batch calls awaiting Promise.allSettled, by slot
  nextId,    \* the next id crypto.randomUUID() returns
  ops,       \* the operations the user has performed so far
  restarts,  \* the reloads of the page so far
  lastOp,    \* the operation or completion performed by the last step
  joined,    \* how a batch call returned in the last step, if one did
  session,   \* the state of the OverallProgressStateMachine
  smState,   \* a stand-alone UploadStateMachine: its state,
  smContext, \*   its context,
  smLast,    \*   and the last send applied to it (with the context before)
  rt         \* a registry handed to uploadsAtom's write and what is read back

vars == <<ser, cache, tasks, calls, nextId, ops, restarts, lastOp, joined,
          session, smState, smContext, smLast, rt>>
\* what the operations of the registry leave alone
aloneVars == <<restarts, smState, smContext, smLast, rt>>
regVars == <<ser, cache, tasks, calls, nextId, ops, lastOp, joined,
             session>>

\* the registry as the operators above take it
Reg == [ser |-> ser, cache |-> cache]

Slots == 1..MaxTasks
CallSlots == 1..MaxCalls

FreeTask ==
  [kind |-> "free", id |-> 0, pc |-> "free", call |-> 0, aborted |-> FALSE,
   remoteId |-> Undef, uploadUrl |-> Undef, errorMsg |-> Undef]
FreeCall == [kind |-> "free", pending |-> 0, outcome |-> "free"]
NewCall(kind, n) == [kind |-> kind, pending |-> n, outcome |-> "pending"]

\* what a step leaves in lastOp: the operation, the id it was given (0 when
\* it takes none; the number of files for addFiles and prepareAll), the outcome of the backend call that settled, and the
\* persisted items it wrote one after the other for that id
Op(name, id, ok, trail) == [op |-> name, id |-> id, ok |-> ok, trail |-> trail]

\* the user performs the operation name on id, writing trail
UserOpT(name, id, trail) ==
  /\ ops < MaxOps
  /\ ops' = ops + 1
  /\ lastOp' = Op(name, id, TRUE, trail)
  /\ joined' = "none"

UserOp(name, id) == UserOpT(name, id, << >>)

\* the backend call of an operation in flight for id settles (ok or not)
Completion(name, id, ok) ==
  /\ lastOp' = Op(name, id, ok, << >>)
  /\ UNCHANGED ops

FreeSlots == {t \in Slots : tasks[t].kind = "free"}
FreeCallSlots == {c \in CallSlots : calls[c].kind = "free"}

\* the slot each new operation of the ids in S gets
AssignSlots(S) ==
  CHOOSE f \in [S -> FreeSlots] : \A a, b \in S : a # b => f[a] # f[b]

RECURSIVE SortedSeq(_)
SortedSeq(S) ==
  IF S = {} THEN << >>
  ELSE LET m == CHOOSE x \in S : \A y \in S : x <= y
       IN <<m>> \o SortedSeq(S \ {m})

\* a record as addFilesAtom / prepareUploadsAtom create it
NewItem(file, status, events) ==
  [file |-> file, fileSize |-> file, progress |-> 0, status |-> status,
   error |-> Undef, remoteId |-> Undef, uploadUrl |-> Undef,
   method |-> Undef, controller |-> NoController,
   stateMachine |-> Sends(createUploadStateMachine(file), events)]

\* s extended by one new record for each id of newIds
WithNew(s, newIds, item) ==
  [id \in DOMAIN s \cup newIds |-> IF id \in newIds THEN item ELSE s[id]]

\* controller.abort() on the controller a record carries, if any
Abort(ts, controller) ==
  IF controller = NoController \/ ts[controller].pc # "transmit" THEN ts
  ELSE [ts EXCEPT ![controller].aborted = TRUE]

\* files dropped in one call of addFiles / prepareAll
MaxBatch == 2

\* ---------------------------------------------------------------------
\* Registry operations
\* ---------------------------------------------------------------------

\* addFilesAtom with n files of size file
AddFiles(n, file) ==
  /\ UserOp("addFiles", n)
  /\ UNCHANGED session
  /\ nextId + n - 1 <= MaxIds
  /\ IF uploadsStarted(Reg)
       THEN UNCHANGED <<ser, cache, nextId>>
       ELSE LET newIds == nextId..(nextId + n - 1)
                next == WithNew(Uploads(Reg), newIds,
                                NewItem(file, "queued", <<Ev("ADD_FILE")>>))
                R == SetUploads(Reg, next)
            IN /\ ser' = R.ser
               /\ cache' = R.cache
               /\ nextId' = nextId + n
  /\ UNCHANGED <<tasks, calls, aloneVars>>

\* removeUploadAtom
RemoveUpload(id) ==
  /\ UserOp("remove", id)
  /\ UNCHANGED session
  /\ LET s == Uploads(Reg)
         known == id \in DOMAIN s
         evicted == IF known THEN [cache EXCEPT ![id] = NoFile] ELSE cache
         rest == [i \in DOMAIN s \ {id} |-> s[i]]
         R == SetUploads([ser |-> ser, cache |-> evicted], rest)
     IN /\ tasks' = IF known THEN Abort(tasks, s[id].controller) ELSE tasks
        /\ ser' = [i \in DOMAIN R.ser \ {id} |-> R.ser[i]]
        /\ cache' = R.cache
        /\ UNCHANGED <<calls, nextId, aloneVars>>

\* a cancel that evicts the file of the record it cancels
CancelUpload_mut(id) ==
  /\ UserOp("cancel", id)
  /\ UNCHANGED session
  /\ LET s == Uploads(Reg) IN
     /\ IF id \in DOMAIN s
          THEN LET upload == s[id]
                   R == SetUploads(Reg,
                          [s EXCEPT ![id] =
                             Merge(upload, [status |-> "canceled",
                                            controller |-> NoController])])
               IN /\ tasks' = Abort(tasks, upload.controller)
                  /\ ser' = IF id \in DOMAIN R.ser
                              THEN [R.ser EXCEPT ![id].status = "canceled"]
                              ELSE R.ser
                  /\ cache' = [R.cache EXCEPT ![id] = NoFile]
          ELSE UNCHANGED <<ser, cache, tasks>>
     /\ UNCHANGED <<calls, nextId, aloneVars>>

\* cancelUploadAtom
CancelUpload(id) ==
  /\ UserOp("cancel", id)
  /\ UNCHANGED session
  /\ LET s == Uploads(Reg) IN
     /\ IF id \in DOMAIN s
          THEN LET upload == s[id]
                   R == SetUploads(Reg,
                          [s EXCEPT ![id] =
                             Merge(upload, [status |-> "canceled",
                                            controller |-> NoController])])
               IN /\ tasks' = Abort(tasks, upload.controller)
                  /\ ser' = IF id \in DOMAIN R.ser
                              THEN [R.ser EXCEPT ![id].status = "canceled"]
                              ELSE R.ser
                  /\ cache' = R.cache
          ELSE UNCHANGED <<ser, cache, tasks>>
     /\ UNCHANGED <<calls, nextId, aloneVars>>

\* the controllers cancelAll / clearAll abort, one after the other
RECURSIVE AbortEach(_, _, _)
AbortEach(ts, s, ids) ==
  IF ids = << >> THEN ts
  ELSE AbortEach(Abort(ts, s[Head(ids)].controller), s, Tail(ids))

\* a cancelAll that also takes the records that are ready
isActiveUpload_mut(upload) ==
  upload.status \in {"uploading", "reserving", "ready"}

\* the records cancelAllActiveUploadsAtom cancels
isActiveUpload(upload) == upload.status \in {"uploading", "reserving"}

\* cancelAllActiveUploadsAtom
CancelAllActiveUploads ==
  /\ UserOp("cancelAll", 0)
  /\ UNCHANGED session
  /\ LET s == Uploads(Reg)
         active == {id \in DOMAIN s : isActiveUpload(s[id])}
         s2 == [id \in DOMAIN s |->
                  IF id \in active
                    THEN Merge(s[id], [status |-> "canceled",
                                       controller |-> NoController])
                    ELSE s[id]]
         serializable == [id \in DOMAIN ser |->
                            IF id \in active
                              THEN [ser[id] EXCEPT !.status = "canceled"]
                              ELSE ser[id]]
         hasChanges == active # {}
     IN /\ tasks' = AbortEach(tasks, s, SortedSeq(active))
        /\ IF hasChanges
             THEN /\ cache' = SetUploads(Reg, s2).cache
                  /\ ser' = serializable
             ELSE UNCHANGED <<ser, cache>>
        /\ UNCHANGED <<calls, nextId, aloneVars>>

\* a clearAll that leaves the file cache as it is
ClearAllUploads_mut ==
  /\ UserOp("clearAll", 0)
  /\ UNCHANGED session
  /\ LET s == Uploads(Reg)
         toAbort == {id \in DOMAIN s :
                       /\ s[id].controller # NoController
                       /\ s[id].status \in {"uploading", "reserving"}}
     IN /\ tasks' = AbortEach(tasks, s, SortedSeq(toAbort))
        /\ cache' = cache
        /\ ser' = << >>
        /\ UNCHANGED <<calls, nextId, aloneVars>>

\* clearAllUploadsAtom
ClearAllUploads ==
  /\ UserOp("clearAll", 0)
  /\ UNCHANGED session
  /\ LET s == Uploads(Reg)
         toAbort == {id \in DOMAIN s :
                       /\ s[id].controller # NoController
                       /\ s[id].status \in {"uploading", "reserving"}}
     IN /\ tasks' = AbortEach(tasks, s, SortedSeq(toAbort))
        /\ cache' = [id \in Ids |-> IF id \in DOMAIN s THEN NoFile ELSE cache[id]]
        /\ ser' = << >>
        /\ UNCHANGED <<calls, nextId, aloneVars>>

\* clearRemovableUploadsAtom
ClearRemovableUploads ==
  /\ UserOp("clearRemovable", 0)
  /\ UNCHANGED session
  /\ LET s == Uploads(Reg)
         keep == {id \in DOMAIN s : s[id].status = "uploading"}
         R == SetUploads(Reg, [id \in keep |-> s[id]])
     IN /\ ser' = R.ser
        /\ cache' = R.cache
        /\ UNCHANGED <<tasks, calls, nextId, aloneVars>>

\* ---------------------------------------------------------------------
\* Orchestrator: reserve, transmit, confirm
\* ---------------------------------------------------------------------

NewTask(kind, id, pc, call, upload) ==
  [kind |-> kind, id |-> id, pc |-> pc, call |-> call, aborted |-> FALSE,
   remoteId |-> upload.remoteId, uploadUrl |-> upload.uploadUrl,
   errorMsg |-> Undef]

\* the new tasks of the ids in S put into their slots
Launch(ts, S, slotOf, kind, pc, call, s) ==
  [t \in Slots |->
     IF \E id \in S : slotOf[id] = t
       THEN LET id == CHOOSE i \in S : slotOf[i] = t
            IN NewTask(kind, id, pc, call, s[id])
       ELSE ts[t]]

\* a join that gives up at the first rejected member
allSettled_mut(call, result) ==
  IF result = "rejected"
    THEN [call EXCEPT !.pending = @ - 1, !.outcome = "resolved"]
    ELSE [call EXCEPT !.pending = @ - 1,
                      !.outcome = IF call.pending = 1 THEN "resolved"
                                  ELSE call.outcome]

\* await Promise.allSettled(promises), seen from one member that settles
\* with result: the call resolves when its last member has settled
allSettled(call, result) ==
  [call EXCEPT !.pending = @ - 1,
               !.outcome = IF call.pending = 1 THEN "resolved"
                           ELSE call.outcome]

\* how the call of slot c (0: no batch) returns when one of its members
\* settles with result: "none" while it keeps waiting
JoinOutcome(cs, c, result) ==
  IF c = 0 THEN "none"
  ELSE IF cs[c].kind = "free" THEN "none"
  ELSE IF allSettled(cs[c], result).outcome = "pending" THEN "none"
  ELSE allSettled(cs[c], result).outcome

\* the calls after a member of call slot c settles with result: a call that
\* returns gives up its slot
Join(cs, c, result) ==
  IF c = 0 THEN cs
  ELSE IF cs[c].kind = "free" THEN cs
  ELSE IF JoinOutcome(cs, c, result) = "none"
    THEN [cs EXCEPT ![c] = allSettled(@, result)]
    ELSE [cs EXCEPT ![c] = FreeCall]

\* calls and joined after the member task settles with result
Settled(task, result) ==
  /\ calls' = Join(calls, task.call, result)
  /\ joined' = JoinOutcome(calls, task.call, result)

NotSettled == UNCHANGED calls /\ joined' = "none"

\* prepareUploadsAtom with n files of size file, up to its await
PrepareAll(n, file) ==
  /\ UserOp("prepareAll", n)
  /\ UNCHANGED session
  /\ nextId + n - 1 <= MaxIds
  /\ IF n = 0 \/ uploadsStarted(Reg)
       THEN UNCHANGED <<ser, cache, nextId, tasks, calls>>
       ELSE /\ Cardinality(FreeSlots) >= n
            /\ FreeCallSlots # {}
            /\ LET newIds == nextId..(nextId + n - 1)
                   uploads == WithNew(Uploads(Reg), newIds,
                                NewItem(file, "reserving",
                                        <<Ev("ADD_FILE"), Ev("START_RESERVE")>>))
                   R == SetUploads(Reg, uploads)
                   c == CHOOSE x \in FreeCallSlots : TRUE
               IN /\ ser' = R.ser
                  /\ cache' = R.cache
                  /\ nextId' = nextId + n
                  /\ tasks' = Launch(tasks, newIds, AssignSlots(newIds),
                                     "reserve", "reserve", c, uploads)
                  /\ calls' = [calls EXCEPT ![c] =
                                 NewCall("prepareAll", n)]
  /\ UNCHANGED aloneVars

\* reserveUploadUrl after its await: the reservation call of slot t settles
ReserveSettle(t, ok) ==
  /\ Completion("reserveSettle", tasks[t].id, ok)
  /\ UNCHANGED session
  /\ tasks[t].pc = "reserve"
  /\ LET id == tasks[t].id
         R == IF ok
                THEN updateUpload(Reg, id,
                       [remoteId |-> "remote-id", uploadUrl |-> "upload-url",
                        method |-> "PUT", status |-> "ready"])
                ELSE updateUpload(Reg, id,
                       [status |-> "error", error |-> MsgApiError])
     IN /\ ser' = R.ser
        /\ cache' = R.cache
        /\ Settled(tasks[t], IF ok THEN "fulfilled" ELSE "rejected")
  /\ tasks' = [tasks EXCEPT ![t] = FreeTask]
  /\ UNCHANGED <<nextId, aloneVars>>

\* performSimpleUpload up to its first await, for each id of ids in order:
\* a new controller, stored with status uploading
RECURSIVE BeginUploads(_, _, _)
BeginUploads(R, ids, slotOf) ==
  IF ids = << >> THEN R
  ELSE BeginUploads(
         updateUpload(R, Head(ids),
           [controller |-> slotOf[Head(ids)], status |-> "uploading"]),
         Tail(ids), slotOf)

\* startUploadsAtom, up to its await
StartUploads ==
  /\ UserOp("startAll", 0)
  /\ UNCHANGED session
  /\ LET s == Uploads(Reg)
         ready == readyUploads(Reg)
     IN /\ IF ready = {}
             THEN UNCHANGED <<ser, cache, tasks, calls>>
             ELSE /\ Cardinality(FreeSlots) >= Cardinality(ready)
                  /\ FreeCallSlots # {}
                  /\ LET slotOf == AssignSlots(ready)
                         R == BeginUploads(Reg, SortedSeq(ready), slotOf)
                         c == CHOOSE x \in FreeCallSlots : TRUE
                     IN /\ ser' = R.ser
                        /\ cache' = R.cache
                        /\ tasks' = Launch(tasks, ready, slotOf, "start",
                                           "transmit", c, s)
                        /\ calls' = [calls EXCEPT ![c] =
                                       [kind |-> "startAll",
                                        pending |-> Cardinality(ready),
                                        outcome |-> "pending"]]
        /\ UNCHANGED <<nextId, aloneVars>>

\* what retryUploadAtom has done once it awaits: the registry it left, whether
\* a transmit was started, and the persisted items it wrote one after the
\* other for id
RetryWritten(R, started, trail) ==
  [R |-> R, started |-> started, trail |-> trail]

\* retryUploadAtom's placeholder branch, R1 being the registry after its
\* write
RetryRefused(R1, id) == RetryWritten(R1, FALSE, <<R1.ser[id]>>)

\* performSimpleUpload up to its await, R1 being the registry after the
\* reset to ready and R2 the registry after the write of uploading
RetryStarted(R1, R2, id) == RetryWritten(R2, TRUE, <<R1.ser[id], R2.ser[id]>>)

\* retryUploadAtom from the reset to ready on, R1 being the registry after
\* the reset
RetryTransmit(R1, id, slot) ==
  RetryStarted(R1,
               updateUpload(R1, id, [controller |-> slot,
                                     status |-> "uploading"]),
               id)

\* a retry that goes to uploading without the reset to ready
RetryBegin_mut(R, id, slot) ==
  IF id \notin DOMAIN R.ser THEN RetryWritten(R, FALSE, << >>)
  ELSE IF ReadItem(R.ser[id], R.cache[id]).status # "error"
    THEN RetryWritten(R, FALSE, << >>)
  ELSE RetryTransmit(R, id, slot)

\* retryUploadAtom up to its first await, on registry R with the slot its
\* controller would take: the registry after it, whether a transmit was
\* started, the record it captured, and the persisted items it wrote for id
RetryBegin(R, id, slot) ==
  IF id \notin DOMAIN R.ser THEN RetryWritten(R, FALSE, << >>)
  ELSE IF ReadItem(R.ser[id], R.cache[id]).status # "error"
    THEN RetryWritten(R, FALSE, << >>)
  ELSE IF isPlaceholderFile(ReadItem(R.ser[id], R.cache[id]))
    THEN RetryRefused(updateUpload(R, id, [status |-> "error",
                                           error |-> MsgCannotRetry]), id)
  ELSE RetryTransmit(updateUpload(R, id, [status |-> "ready",
                                          progress |-> 0,
                                          error |-> Undef,
                                          controller |-> NoController]),
                     id, slot)

\* the record retryUploadAtom captures before it writes
RetrySnapshot(R, id) == ReadItem(R.ser[id], R.cache[id])

\* the slot the controller of a single retry takes
RetrySlot ==
  IF FreeSlots = {} THEN NoController
  ELSE CHOOSE x \in FreeSlots : \A y \in FreeSlots : x <= y

\* retryUploadAtom(id) up to its await, b being what RetryBegin returns and
\* snap the record captured before the writes
RetryCommit(id, t, b, snap) ==
  /\ UserOpT("retry", id, b.trail)
  /\ UNCHANGED session
  /\ b.started => t \in FreeSlots
  /\ ser' = b.R.ser
  /\ cache' = b.R.cache
  /\ tasks' = IF b.started
                THEN [tasks EXCEPT ![t] =
                        NewTask("retry", id, "transmit", 0, snap)]
                ELSE tasks
  /\ UNCHANGED <<calls, nextId, aloneVars>>

\* retryUploadAtom(id), up to its await (nothing is captured and nothing is
\* started when there is no record id)
RetryUpload(id) ==
  RetryCommit(id, RetrySlot, RetryBegin(Reg, id, RetrySlot),
              IF id \in DOMAIN ser THEN RetrySnapshot(Reg, id) ELSE FreeTask)

\* the batch of retryAllFailedAtom after set(retryUploadAtom, id): b is what
\* RetryBegin returned and snap the record it captured
RetryNoted(acc, id, b, snap) ==
  [R |-> b.R,
   started |-> IF b.started THEN acc.started \cup {id} ELSE acc.started,
   snaps |-> [i \in DOMAIN acc.snaps \cup {id} |->
                IF i = id THEN snap ELSE acc.snaps[i]]]

\* set(retryUploadAtom, id) for each id of ids in order: the registry after
\* them, the ids whose transmit was started and the records they captured
RECURSIVE RetryEach(_, _, _)
RetryEach(acc, ids, slotOf) ==
  IF ids = << >> THEN acc
  ELSE RetryEach(RetryNoted(acc, Head(ids),
                            RetryBegin(acc.R, Head(ids), slotOf[Head(ids)]),
                            RetrySnapshot(acc.R, Head(ids))),
                 Tail(ids), slotOf)

\* the records retryAllFailedAtom retries
failedUploads(R) ==
  {id \in DOMAIN R.ser :
     LET upload == Uploads(R)[id] IN
       upload.status = "error" /\ ~IncludesPageRefresh(upload.error)}

\* retryAllFailedAtom, up to its await
RetryAllFailed ==
  /\ UserOp("retryAllFailed", 0)
  /\ UNCHANGED session
  /\ LET failed == failedUploads(Reg) IN
     /\ IF failed = {}
          THEN UNCHANGED <<ser, cache, tasks, calls>>
          ELSE /\ Cardinality(FreeSlots) >= Cardinality(failed)
               /\ FreeCallSlots # {}
               /\ LET slotOf == AssignSlots(failed)
                      r == RetryEach([R |-> Reg, started |-> {}, snaps |-> << >>],
                                     SortedSeq(failed), slotOf)
                      c == CHOOSE x \in FreeCallSlots : TRUE
                  IN /\ ser' = r.R.ser
                     /\ cache' = r.R.cache
                     /\ tasks' = Launch(tasks, r.started, slotOf, "retry",
                                        "transmit", c, r.snaps)
                     /\ calls' = IF r.started = {} THEN calls
                                 ELSE [calls EXCEPT ![c] =
                                         [kind |-> "retryAllFailed",
                                          pending |-> Cardinality(r.started),
                                          outcome |-> "pending"]]
     /\ UNCHANGED <<nextId, aloneVars>>

\* onUploadProgress of the transmit of slot t reports p percent
UploadProgress(t, p) ==
  /\ Completion("progress", tasks[t].id, TRUE)
  /\ UNCHANGED session
  /\ NotSettled
  /\ tasks[t].pc = "transmit"
  /\ LET R == updateUpload(Reg, tasks[t].id, [progress |-> p])
     IN ser' = R.ser /\ cache' = R.cache
  /\ UNCHANGED <<tasks, nextId, aloneVars>>

\* the transmit of slot t settles: outcome is "ok", "error" (the transport
\* failed) or "abort" (its controller was aborted)
TransmitSettle(t, outcome) ==
  /\ Completion("transmitSettle", tasks[t].id, outcome = "ok")
  /\ UNCHANGED session
  /\ tasks[t].pc = "transmit"
  /\ IF tasks[t].aborted THEN outcome = "abort" ELSE outcome \in {"ok", "error"}
  /\ LET task == tasks[t]
         id == task.id
         \* performSimpleUpload's catch
         R1 == updateUpload(Reg, id, [controller |-> NoController])
         canceled == updateUpload(R1, id, [status |-> "canceled",
                                           controller |-> NoController])
         errorMsg == MsgUploadFailed
         failed == updateUpload(R1, id, [status |-> "error",
                                         error |-> errorMsg,
                                         controller |-> NoController])
     IN CASE outcome = "ok" ->
               /\ tasks' = [tasks EXCEPT ![t].pc = "confirmOk"]
               /\ NotSettled
               /\ UNCHANGED <<ser, cache>>
          [] outcome = "abort" ->
               /\ ser' = canceled.ser
               /\ cache' = canceled.cache
               /\ tasks' = [tasks EXCEPT ![t] = FreeTask]
               /\ Settled(task, IF task.kind = "start" THEN "rejected"
                                 ELSE "fulfilled")
          [] outcome = "error" ->
               IF task.kind = "start" \/ task.remoteId # Undef
                 THEN /\ ser' = R1.ser
                      /\ cache' = R1.cache
                      /\ tasks' = [tasks EXCEPT ![t].pc = "confirmFail",
                                                ![t].errorMsg = errorMsg]
                      /\ NotSettled
                 ELSE /\ ser' = failed.ser
                      /\ cache' = failed.cache
                      /\ tasks' = [tasks EXCEPT ![t] = FreeTask]
                      /\ Settled(task, "fulfilled")
  /\ UNCHANGED <<nextId, aloneVars>>

\* a confirm handling that lets a failed notification decide the status
FinalUpdate_mut(task, ok) ==
  IF task.pc = "confirmOk" /\ ok
    THEN [progress |-> 100, status |-> "success",
          controller |-> NoController, error |-> Undef]
    ELSE [status |-> "error",
          error |-> IF task.pc = "confirmOk" THEN MsgApiError
                    ELSE task.errorMsg,
          controller |-> NoController]

\* the update written once the confirm notification of task has settled
\* (ok: acknowledged; otherwise it failed and was logged)
FinalUpdate(task, ok) ==
  IF task.pc = "confirmOk"
    THEN [progress |-> 100, status |-> "success",
          controller |-> NoController, error |-> Undef]
    ELSE [status |-> "error", error |-> task.errorMsg,
          controller |-> NoController]

\* the confirm notification of slot t settles
ConfirmSettle(t, ok) ==
  /\ Completion("confirmSettle", tasks[t].id, ok)
  /\ UNCHANGED session
  /\ tasks[t].pc \in {"confirmOk", "confirmFail"}
  /\ LET task == tasks[t]
         R == updateUpload(Reg, task.id, FinalUpdate(task, ok))
     IN /\ ser' = R.ser
        /\ cache' = R.cache
        /\ Settled(task, IF task.pc = "confirmFail" /\ task.kind = "start"
                            THEN "rejected" ELSE "fulfilled")
  /\ tasks' = [tasks EXCEPT ![t] = FreeTask]
  /\ UNCHANGED <<nextId, aloneVars>>

\* the page is reloaded: the persisted items survive, the file cache and
\* every operation in flight do not
Restart ==
  /\ restarts < MaxRestarts
  /\ restarts' = restarts + 1
  /\ lastOp' = Op("restart", 0, TRUE, << >>)
  /\ joined' = "none"
  /\ session' = "idle"
  /\ cache' = [id \in Ids |-> NoFile]
  /\ tasks' = [t \in Slots |-> FreeTask]
  /\ calls' = [c \in CallSlots |-> FreeCall]
  /\ UNCHANGED <<ser, nextId, ops, smState, smContext, smLast, rt>>

\* overallProgressAtom is read: the context is recomputed from the records
\* and handed to the session machine. The atom is re-evaluated once its
\* dependency was set, and a set that changes no record (the remove of an
\* unknown id, a repeated progress report) counts as well, so that it can be
\* re-evaluated on unchanged records.
Observe ==
  /\ session' = updateFromUploads(session, SessionContext(Uploads(Reg)))
  /\ UNCHANGED <<ser, cache, tasks, calls, nextId, ops, lastOp, joined,
                 aloneVars>>

\* ---------------------------------------------------------------------
\* The stand-alone transfer machine
\* ---------------------------------------------------------------------

SmPayloads ==
  {[progress |-> 45], [error |-> MsgApiError],
   [remoteId |-> "remote-id", uploadUrl |-> "upload-url", method |-> "PUT"]}

\* machine.send(event) and machine.send(event, payload)
Send(event, hasPayload, payload) ==
  LET r == send(smState, smContext, event, hasPayload, payload) IN
  /\ smState' = r.state
  /\ smContext' = r.context
  /\ smLast' = [event |-> event, from |-> smState, hasPayload |-> hasPayload,
                payload |-> payload, context |-> smContext, ret |-> r.ret,
                notified |-> r.notified]
  /\ UNCHANGED <<regVars, restarts, rt>>

\* set(uploadsAtom, newUploads) on an empty registry followed by
\* get(uploadsAtom), once: the projection goes to serializableUploadsAtom,
\* the files go to fileCache, and the read rebuilds the records from both
RoundTrip(newUploads) ==
  /\ ~rt.done
  /\ rt' = [done |-> TRUE, in |-> newUploads,
            out |-> Uploads(SetUploads([ser |-> << >>,
                                        cache |-> [id \in Ids |-> NoFile]],
                                       newUploads))]
  /\ UNCHANGED <<regVars, restarts, smState, smContext, smLast>>

\* ---------------------------------------------------------------------
\* Specifications
\* ---------------------------------------------------------------------

Init ==
  /\ ser = << >>
  /\ cache = [id \in Ids |-> NoFile]
  /\ tasks = [t \in Slots |-> FreeTask]
  /\ calls = [c \in CallSlots |-> FreeCall]
  /\ nextId = 1
  /\ ops = 0
  /\ restarts = 0
  /\ lastOp = Op("init", 0, TRUE, << >>)
  /\ joined = "none"
  /\ session = "idle"
  /\ smState = createUploadStateMachine(1000).state
  /\ smContext = createUploadStateMachine(1000).context
  /\ smLast = [event |-> "none", from |-> "idle", hasPayload |-> FALSE,
               payload |-> NoPayload,
               context |-> createUploadStateMachine(1000).context,
               ret |-> FALSE, notified |-> FALSE]
  /\ rt = NoRoundTrip

Next ==
  \/ \E n \in 0..MaxBatch, file \in FileSizes : AddFiles(n, file)
  \/ \E n \in 0..MaxBatch, file \in FileSizes : PrepareAll(n, file)
  \/ \E id \in Ids : RemoveUpload(id)
  \/ \E id \in Ids : CancelUpload(id)
  \/ CancelAllActiveUploads
  \/ ClearAllUploads
  \/ ClearRemovableUploads
  \/ StartUploads
  \/ \E id \in Ids : RetryUpload(id)
  \/ RetryAllFailed
  \/ \E t \in Slots, ok \in BOOLEAN : ReserveSettle(t, ok)
  \/ \E t \in Slots, p \in ProgressValues : UploadProgress(t, p)
  \/ \E t \in Slots, outcome \in {"ok", "error", "abort"} :
       TransmitSettle(t, outcome)
  \/ \E t \in Slots, ok \in BOOLEAN : ConfirmSettle(t, ok)
  \/ Restart
  \/ Observe

Spec == Init /\ [][Next]_vars

NextSM ==
  \/ \E event \in UploadEvents : Send(event, FALSE, NoPayload)
  \/ \E event \in UploadEvents, payload \in SmPayloads :
       Send(event, TRUE, payload)

SpecSM == Init /\ [][NextSM]_vars

\* the write and the read of uploadsAtom alone, on registries of live
\* records drawn from RtRegistries
NextRT == \E newUploads \in RtRegistries : RoundTrip(newUploads)

SpecRT == Init /\ [][NextRT]_vars

\* ---------------------------------------------------------------------
\* Properties
\* ---------------------------------------------------------------------

\* the registry after the step
RegNext == [ser |-> ser', cache |-> cache']

\* the transfer transition table, as <<state, event, target>>
TransferTable ==
  {<<"idle", "ADD_FILE", "queued">>,
   <<"queued", "START_RESERVE", "reserving">>,
   <<"queued", "CANCEL", "canceled">>,
   <<"queued", "REMOVE", "idle">>,
   <<"reserving", "RESERVE_SUCCESS", "ready">>,
   <<"reserving", "RESERVE_ERROR", "error">>,
   <<"reserving", "CANCEL", "canceled">>,
   <<"reserving", "REMOVE", "idle">>,
   <<"ready", "START_UPLOAD", "uploading">>,
   <<"ready", "CANCEL", "canceled">>,
   <<"ready", "REMOVE", "idle">>,
   <<"uploading", "UPLOAD_PROGRESS", "uploading">>,
   <<"uploading", "UPLOAD_SUCCESS", "success">>,
   <<"uploading", "UPLOAD_ERROR", "error">>,
   <<"uploading", "CANCEL", "canceled">>,
   <<"success", "REMOVE", "idle">>,
   <<"error", "RETRY", "retrying">>,
   <<"error", "REMOVE", "idle">>,
   <<"canceled", "RETRY", "retrying">>,
   <<"canceled", "REMOVE", "idle">>,
   <<"retrying", "START_RESERVE", "reserving">>,
   <<"retrying", "RESERVE_SUCCESS", "ready">>,
   <<"retrying", "START_UPLOAD", "uploading">>,
   <<"retrying", "UPLOAD_SUCCESS", "success">>,
   <<"retrying", "UPLOAD_ERROR", "error">>,
   <<"retrying", "CANCEL", "canceled">>,
   <<"retrying", "REMOVE", "idle">>}

\* C1: after sending event E to a machine in state S, the machine is in the
\* target the transition table lists for (S, E), and in S itself when the
\* table lists nothing for (S, E).
C1_TransitionTable ==
  smLast.event # "none" =>
    /\ \A row \in TransferTable :
         (row[1] = smLast.from /\ row[2] = smLast.event) => smState = row[3]
    /\ (~\E row \in TransferTable :
          row[1] = smLast.from /\ row[2] = smLast.event)
         => smState = smLast.from

\* a listed transition out of retrying has been taken
C1_Witness ==
  /\ smLast.from = "retrying"
  /\ smLast.event = "START_UPLOAD"
  /\ smState = "uploading"

\* the live records before and after the step
Live == Uploads(Reg)
LiveNext == Uploads(RegNext)

\* the registry is frozen: a record is reserving, uploading or success
Frozen ==
  \E id \in DOMAIN Live : Live[id].status \in {"reserving", "uploading", "success"}

\* C2: a call of addFiles or prepareAll made while a record is reserving,
\* uploading or success adds no record, changes no record and starts no
\* reservation.
C2_FrozenBatch ==
  [][(lastOp'.op \in {"addFiles", "prepareAll"} /\ Frozen)
       => UNCHANGED <<ser, cache, tasks, calls, nextId>>]_vars

\* addFiles has just been called on a registry that holds a finished upload
C2_Witness ==
  /\ lastOp.op = "addFiles"
  /\ lastOp.id >= 1
  /\ \E id \in DOMAIN Live : Live[id].status = "success"

\* the payload of record id is still in the file cache
HasPayload(id) == cache[id] \in FileSizes

\* record id was rehydrated after a restart without its payload
IsPlaceholderRecord(id) ==
  id \in DOMAIN ser /\ cache[id] \in {NoFile, PlaceholderFile}

\* C3: retry(id) on a record in error whose payload is available writes the
\* record as ready with progress 0 and no error, then as uploading with a
\* transmit in flight, and the retry's transmit leaves the record in success
\* or error when its last backend call settles.
C3_RetryThroughReady ==
  [][/\ (/\ lastOp'.op = "retry"
         /\ lastOp'.id \in DOMAIN Live
         /\ Live[lastOp'.id].status = "error"
         /\ HasPayload(lastOp'.id))
        => /\ Len(lastOp'.trail) = 2
           /\ lastOp'.trail[1].status = "ready"
           /\ lastOp'.trail[1].progress = 0
           /\ lastOp'.trail[1].error = Undef
           /\ lastOp'.trail[2].status = "uploading"
           /\ LiveNext[lastOp'.id].status = "uploading"
           /\ \E t \in Slots :
                /\ tasks[t] = FreeTask
                /\ tasks'[t].kind = "retry"
                /\ tasks'[t].id = lastOp'.id
                /\ tasks'[t].pc = "transmit"
     /\ \A t \in Slots :
          (/\ lastOp'.op \in {"transmitSettle", "confirmSettle"}
           /\ tasks[t].kind = "retry"
           /\ tasks'[t] = FreeTask
           /\ tasks[t].id \in DOMAIN ser)
          => LiveNext[tasks[t].id].status \in {"success", "error"}]_vars

\* retry has just taken a failed record with its payload to uploading
C3_Witness ==
  /\ lastOp.op = "retry"
  /\ Len(lastOp.trail) = 2
  /\ HasPayload(lastOp.id)
  /\ Live[lastOp.id].status = "uploading"
  /\ \E t \in Slots : tasks[t].kind = "retry" /\ tasks[t].id = lastOp.id

\* C4: retry(id) on a placeholder record leaves it in error with the
\* "cannot retry" message, never writes it as ready or uploading and
\* starts no backend call for it.
C4_PlaceholderRetry ==
  [][(lastOp'.op = "retry" /\ IsPlaceholderRecord(lastOp'.id))
       => /\ LiveNext[lastOp'.id].status = "error"
          /\ LiveNext[lastOp'.id].error = MsgCannotRetry
          /\ \A k \in 1..Len(lastOp'.trail) :
               lastOp'.trail[k].status \notin {"ready", "uploading"}
          /\ tasks' = tasks]_vars

\* the record a cancel, cancelAll or remove step acts on
ActsOn(op, id) ==
  /\ id \in DOMAIN Live
  /\ \/ op.op \in {"cancel", "remove"} /\ op.id = id
     \/ op.op = "cancelAll" /\ Live[id].status \in {"reserving", "uploading"}

\* C5: when cancel(id), cancelAll() or remove(id) acts on a record whose
\* transmit is in flight, the cancellation token of that transmit is
\* invoked.
C5_AbortsTransmit ==
  [][\A t \in Slots :
       (tasks[t].pc = "transmit" /\ ActsOn(lastOp', tasks[t].id))
       => tasks'[t].aborted]_vars

\* C6: cancelAll turns exactly the records that are reserving or uploading
\* into canceled records without token, live and persisted, keeps every
\* other record as it is and removes none.
C6_CancelAllFrame ==
  [][lastOp'.op = "cancelAll" =>
       /\ DOMAIN LiveNext = DOMAIN Live
       /\ DOMAIN ser' = DOMAIN ser
       /\ \A id \in DOMAIN Live :
            IF Live[id].status \in {"reserving", "uploading"}
              THEN /\ LiveNext[id].status = "canceled"
                   /\ LiveNext[id].controller = NoController
                   /\ ser'[id].status = "canceled"
              ELSE /\ LiveNext[id] = Live[id]
                   /\ ser'[id] = ser[id]]_vars

\* cancelAll has just canceled a record whose transmit is still in flight,
\* next to a record that is ready
C6_Witness ==
  /\ lastOp.op = "cancelAll"
  /\ \E id \in DOMAIN Live, t \in Slots :
       /\ Live[id].status = "canceled"
       /\ tasks[t].id = id
       /\ tasks[t].pc = "transmit"
  /\ \E id \in DOMAIN Live : Live[id].status = "ready"

\* C7: startAll() starts a transmit and sets status uploading only for the
\* records that are ready when it is called; a record in any other status
\* keeps its status and gets no transmit.
C7_OnlyReady ==
  [][lastOp'.op = "startAll" =>
       \A id \in DOMAIN Live :
         Live[id].status # "ready" =>
           /\ LiveNext[id].status = Live[id].status
           /\ ~\E t \in Slots : tasks[t] = FreeTask /\ tasks'[t].id = id]_vars

\* the tasks a batch call waits for
Members(c) == {t \in Slots : tasks[t].kind # "free" /\ tasks[t].call = c}

\* C8: a call of prepareAll, startAll or retryAllFailed never rejects, waits
\* for exactly the per-record operations it started that have not settled
\* yet, each of which can settle, and resolves with the last of them; an
\* operation that fails leaves the other records of the batch and their
\* operations as they are.
C8_SettleAllJoin ==
  /\ [](joined # "rejected")
  /\ [](\A c \in CallSlots :
          IF calls[c].kind = "free" THEN Members(c) = {}
          ELSE /\ calls[c].outcome = "pending"
               /\ calls[c].pending = Cardinality(Members(c))
               /\ calls[c].pending >= 1
               /\ \A t \in Members(c) :
                    tasks[t].pc \in {"reserve", "transmit",
                                     "confirmOk", "confirmFail"})
  /\ [][\A t \in Slots :
          (/\ lastOp'.op \in {"reserveSettle", "transmitSettle",
                              "confirmSettle"}
           /\ tasks'[t] # tasks[t]
           /\ tasks[t].call # 0)
          => /\ (joined' = "resolved") = (Members(tasks[t].call) = {t}
                                            /\ tasks'[t] = FreeTask)
             /\ \A u \in Members(tasks[t].call) \ {t} :
                  /\ tasks'[u] = tasks[u]
                  /\ tasks[u].id # tasks[t].id =>
                       (tasks[u].id \in DOMAIN ser =>
                          /\ tasks[u].id \in DOMAIN ser'
                          /\ LiveNext[tasks[u].id] = Live[tasks[u].id]
                          /\ ser'[tasks[u].id] = ser[tasks[u].id])]_vars

\* a batch call has just resolved with a member whose operation failed,
\* while another record of the batch had reached ready
C8_Witness ==
  /\ joined = "resolved"
  /\ lastOp.op = "reserveSettle"
  /\ ~lastOp.ok
  /\ \E id \in DOMAIN Live : id # lastOp.id /\ Live[id].status = "ready"

\* C9: when the confirm notification of a transmit settles, acknowledged or
\* failed, a record whose transport succeeded is success with progress 100,
\* no error and no token, and a record whose transport failed is error with
\* the transport's message.
C9_ConfirmIrrelevant ==
  [][lastOp'.op = "confirmSettle" =>
       \A t \in Slots :
         (tasks[t].pc \in {"confirmOk", "confirmFail"}
            /\ tasks'[t] = FreeTask /\ tasks[t].id \in DOMAIN ser)
         => LET u == LiveNext[tasks[t].id] IN
            IF tasks[t].pc = "confirmOk"
              THEN /\ u.status = "success"
                   /\ u.progress = 100
                   /\ u.error = Undef
                   /\ u.controller = NoController
              ELSE /\ u.status = "error"
                   /\ u.error = tasks[t].errorMsg
                   /\ u.error = MsgUploadFailed]_vars

\* a confirm notification has just failed and the record is success
C9_Witness ==
  /\ lastOp.op = "confirmSettle"
  /\ ~lastOp.ok
  /\ lastOp.id \in DOMAIN Live
  /\ Live[lastOp.id].status = "success"
  /\ Live[lastOp.id].progress = 100

\* what a record adds to the sum of the overall progress
Contribution(upload) ==
  CASE upload.status = "success" -> 100
    [] upload.status = "uploading" -> upload.progress
    [] OTHER -> 0

RECURSIVE ContributionSum(_)
ContributionSum(ids) ==
  IF ids = {} THEN 0
  ELSE LET id == CHOOSE x \in ids : TRUE
       IN Contribution(Live[id]) + ContributionSum(ids \ {id})

\* C10: overallProgress is the sum of the contributions divided by the
\* number of records, rounded to the nearest integer (halves up), and 0 for
\* an empty registry.
C10_OverallProgress ==
  LET total == Cardinality(DOMAIN Live)
      sum == ContributionSum(DOMAIN Live)
      r == overallProgress(Reg)
  IN IF total = 0 THEN r = 0
     ELSE /\ 2 * r * total - total <= 2 * sum
          /\ 2 * sum < 2 * r * total + total

\* one record is success, the other failed after reporting progress
C10_Witness ==
  /\ \E id \in DOMAIN Live : Live[id].status = "success"
  /\ \E id \in DOMAIN Live : Live[id].status = "error" /\ Live[id].progress = 45
  /\ overallProgress(Reg) = 50

\* the session state a recomputation of the aggregate yields in this state
Recomputed == updateFromUploads(session, SessionContext(Live))

\* C11: when the registry is non-empty and every transfer is success, the
\* recomputation yields session state completed from every non-idle state.
C11_AllSuccessCompleted ==
  (/\ DOMAIN Live # {}
   /\ \A id \in DOMAIN Live : Live[id].status = "success"
   /\ session # "idle")
  => Recomputed = "completed"

\* C12: after a recomputation the session is idle if and only if the
\* registry holds no transfer.
C12_IdleIffEmpty == (Recomputed = "idle") <=> (DOMAIN Live = {})

\* a recomputation has taken the session out of idle after addFiles
C12_Witness ==
  /\ lastOp.op = "addFiles"
  /\ DOMAIN Live # {}
  /\ session = "preparing"
  /\ Recomputed # "idle"

\* C13: a registry that is persisted through uploadsAtom's write and
\* rehydrated with every payload in the cache has the same ids and, for every
\* record, the same status, progress and destination fields.
C13_RoundTrip ==
  rt.done =>
    /\ DOMAIN rt.out = DOMAIN rt.in
    /\ \A id \in DOMAIN rt.in :
         /\ rt.out[id].status = rt.in[id].status
         /\ rt.out[id].progress = rt.in[id].progress
         /\ DestOf(rt.out[id]) = DestOf(rt.in[id])

C13_Witness ==
  /\ rt.done
  /\ Cardinality(DOMAIN rt.in) = 2
  /\ \E id \in DOMAIN rt.in :
       /\ rt.in[id].file \in FileSizes
       /\ rt.in[id].status = "uploading"
       /\ rt.in[id].progress = 45
       /\ rt.in[id].uploadUrl = "upload-url"
       /\ rt.out[id].uploadUrl = "upload-url"

\* C14: right after a restart, which empties the file cache, every persisted
\* record is listed with status error and one of the two restart-loss
\* messages, whatever its persisted status is.
C14_RestartForcesError ==
  lastOp.op = "restart" =>
    \A id \in DOMAIN ser :
      /\ id \in DOMAIN Live
      /\ Live[id].status = "error"
      /\ Live[id].error \in {MsgInterrupted, MsgLost}
      /\ Live[id].error = MsgInterrupted
           <=> ser[id].status \in {"uploading", "reserving"}

C14_Witness ==
  /\ lastOp.op = "restart"
  /\ \E id \in DOMAIN ser :
       /\ ser[id].status = "success"
       /\ Live[id].status = "error"
       /\ Live[id].error = MsgLost

\* C15: in every reachable state the live record and its persisted
\* projection carry the byte count recorded at intake (the size of a
\* selected file), also after a restart and after the operations that
\* follow it.
C15_DeclaredSizeKept ==
  \A id \in DOMAIN ser :
    /\ ser[id].fileSize \in FileSizes
    /\ Live[id].fileSize \in FileSizes

\* C16: every record that was rehydrated without its payload and whose
\* fileSize is greater than 0 is detected by isPlaceholderFile, and then
\* hasPlaceholderFiles holds of the registry; no record whose payload is in
\* the cache is detected.
C16_PlaceholderDetected ==
  \A id \in DOMAIN ser :
    /\ (IsPlaceholderRecord(id) /\ Live[id].fileSize > 0)
         => (isPlaceholderFile(Live[id]) /\ hasPlaceholderFiles(Live))
    /\ HasPayload(id) => ~isPlaceholderFile(Live[id])

\* C17: remove(id) on an existing record takes the id out of the listed
\* records, of the file cache and of the persisted store and leaves every
\* other record as it is, live and persisted; in particular the removal of
\* the record that the preceding addFiles created leaves the registry
\* without that record and otherwise as it is.
C17_RemoveFrame ==
  [][(lastOp'.op = "remove" /\ lastOp'.id \in DOMAIN Live) =>
       /\ lastOp'.id \notin DOMAIN LiveNext
       /\ lastOp'.id \notin DOMAIN ser'
       /\ cache'[lastOp'.id] = NoFile
       /\ \A id \in DOMAIN Live \ {lastOp'.id} :
            /\ id \in DOMAIN LiveNext
            /\ LiveNext[id] = Live[id]
            /\ ser'[id] = ser[id]
       /\ (lastOp.op = "addFiles" /\ lastOp.id = 1
             /\ lastOp'.id = nextId - 1)
            => ser' = [id \in DOMAIN ser \ {lastOp'.id} |-> ser[id]]]_vars

\* C18: clearRemovable keeps exactly the records that are uploading, each
\* as it is, live and persisted, removes every other record from the listed
\* records and the persisted store, and evicts the file of every removed
\* record from the file cache.
C18_ClearRemovable ==
  [][lastOp'.op = "clearRemovable" =>
       /\ DOMAIN LiveNext = {id \in DOMAIN Live : Live[id].status = "uploading"}
       /\ DOMAIN ser' = DOMAIN LiveNext
       /\ \A id \in DOMAIN LiveNext :
            /\ LiveNext[id] = Live[id]
            /\ ser'[id] = ser[id]
       /\ \A id \in DOMAIN Live \ DOMAIN LiveNext : cache'[id] = NoFile]_vars

\* C19: after clearAll no record is listed, the persisted store is empty and
\* the file cache holds no file for any id that was in the registry.
C19_ClearAll ==
  [][lastOp'.op = "clearAll" =>
       /\ DOMAIN LiveNext = {}
       /\ ser' = << >>
       /\ \A id \in DOMAIN Live : cache'[id] = NoFile]_vars

\* clearAll has just emptied a registry one of whose records had an
\* operation in flight and a cached file
C19_Witness ==
  /\ lastOp.op = "clearAll"
  /\ ser = << >>
  /\ \E t \in Slots :
       /\ tasks[t].kind # "free"
       /\ cache[tasks[t].id] = NoFile

\* C20: cancel and cancelAll remove no record and evict no file: every
\* record is still listed and persisted, every file that was in the cache is
\* still there, and every record the operation canceled has status
\* canceled, live and persisted, and no controller.
C20_CancelKeepsPayload ==
  [][lastOp'.op \in {"cancel", "cancelAll"} =>
       /\ DOMAIN LiveNext = DOMAIN Live
       /\ DOMAIN ser' = DOMAIN ser
       /\ \A id \in DOMAIN Live :
            /\ HasPayload(id) => cache'[id] = cache[id]
            /\ ActsOn(lastOp', id) =>
                 /\ LiveNext[id].status = "canceled"
                 /\ ser'[id].status = "canceled"
                 /\ LiveNext[id].controller = NoController]_vars

\* cancel has just canceled a record whose transmit is in flight; its file
\* is in the cache
C20_Witness ==
  /\ lastOp.op = "cancel"
  /\ lastOp.id \in DOMAIN Live
  /\ Live[lastOp.id].status = "canceled"
  /\ HasPayload(lastOp.id)
  /\ \E t \in Slots : tasks[t].id = lastOp.id /\ tasks[t].pc = "transmit"

\* C21: a send of an event that the table does not list for the current
\* state leaves the state as it is, returns false, and merges the payload,
\* if one is supplied, into the context.
C21_InvalidIsNoOp ==
  (smLast.event # "none" /\ ~canTransition(smLast.from, smLast.event)) =>
    /\ smState = smLast.from
    /\ smLast.ret = FALSE
    /\ smContext = IF smLast.hasPayload
                     THEN Merge(smLast.context, smLast.payload)
                     ELSE smLast.context

\* C22: every send invokes the subscribed listeners with the resulting state
\* and context, also when the event is not listed for the current state,
\* with or without a payload.
C22_EverySendNotifies ==
  smLast.event # "none" => smLast.notified

\* C23: from every state other than idle the event REMOVE is accepted and
\* takes the machine to idle.
C23_RemoveEscapes ==
  (smLast.event = "REMOVE" /\ smLast.from # "idle") =>
    /\ canTransition(smLast.from, "REMOVE")
    /\ smState = "idle"

\* the ids for which the step starts an operation
StartedIds ==
  {tasks'[t].id : t \in {u \in Slots : tasks[u] = FreeTask /\ tasks'[u] # FreeTask}}

\* C24: retryAllFailed starts a retry for exactly the records that are in
\* error and whose file is still in the cache; it starts none for a record
\* whose file was lost in a restart, whatever happened before.
C24_RetryAllTargets ==
  [][lastOp'.op = "retryAllFailed" =>
       StartedIds = {id \in DOMAIN Live :
                       Live[id].status = "error" /\ HasPayload(id)}]_vars

\* C25: in every reachable state a record whose status is success has
\* progress 100, live and persisted.
C25_SuccessIsFull ==
  \A id \in DOMAIN Live :
    Live[id].status = "success" =>
      (Live[id].progress = 100 /\ ser[id].progress = 100)

\* C26: in every reachable state a record carries an error message exactly
\* when its status is error.
C26_MessageIffError ==
  \A id \in DOMAIN Live :
    (Live[id].error # Undef) <=> (Live[id].status = "error")

\* a record with remoteId, uploadUrl and method
HasDestination(upload) ==
  upload.remoteId # Undef /\ upload.uploadUrl # Undef /\ upload.method # Undef

\* C27: in every reachable state a record has a destination exactly when
\* its status is ready, uploading or success.
C27_DestinationIffReady ==
  \A id \in DOMAIN Live :
    HasDestination(Live[id])
      <=> Live[id].status \in {"ready", "uploading", "success"}

\* the steps in which an operation in flight reports back
CompletionOps == {"reserveSettle", "progress", "transmitSettle", "confirmSettle"}

\* C28: an id that was given out and is no longer in the registry never
\* comes back, and the completion of an operation in flight for such an id
\* changes neither the persisted store nor the file cache, hence no field of
\* a remaining record.
C28_LateCompletionIgnored ==
  [][/\ \A id \in Ids :
          (id < nextId /\ id \notin DOMAIN ser) => id \notin DOMAIN ser'
     /\ (lastOp'.op \in CompletionOps /\ lastOp'.id \notin DOMAIN ser)
          => (ser' = ser /\ cache' = cache /\ LiveNext = Live)]_vars

\* the reservation of a removed record has just reported back while another
\* record is in the registry
C28_Witness ==
  /\ lastOp.op = "reserveSettle"
  /\ lastOp.ok
  /\ lastOp.id < nextId
  /\ lastOp.id \notin DOMAIN ser
  /\ DOMAIN ser # {}

\* none of the first six rules of determineEventFromContext applies to the
\* session state and the context c: there are files, the state is not idle,
\* and the files are neither all canceled, all completed, all failed nor
\* partly completed
NoEarlierRule(state, c) ==
  /\ c.totalFiles # 0
  /\ state # "idle"
  /\ c.canceledFiles # c.totalFiles
  /\ c.completedFiles # c.totalFiles
  /\ ~(c.totalFiles - c.canceledFiles > 0
        /\ c.failedFiles = c.totalFiles - c.canceledFiles)
  /\ ~(c.completedFiles > 0 /\ (c.failedFiles > 0 \/ c.canceledFiles > 0))

\* C29: when none of the first six rules applies, the session is uploading
\* after the recomputation if a record is uploading, and otherwise
\* preparing if a record is reserving, whatever the session was before.
C29_ReflectsWork ==
  LET c == SessionContext(Live) IN
  NoEarlierRule(session, c) =>
    /\ c.uploadingFiles > 0 => Recomputed = "uploading"
    /\ (c.uploadingFiles = 0 /\ c.preparingFiles > 0)
         => Recomputed = "preparing"

\* C30: when the recomputation moves the session into ready, every record
\* has status ready; a registry with a queued record never yields a session
\* in ready.
C30_ReadyMeansAllReady ==
  /\ (session # "ready" /\ Recomputed = "ready")
       => \A id \in DOMAIN Live : Live[id].status = "ready"
  /\ (\E id \in DOMAIN Live : Live[id].status = "queued")
       => Recomputed # "ready"

\* C31: recomputing the session twice from the same records leaves it where
\* one recomputation leaves it.
C31_RecomputeIdempotent ==
  updateFromUploads(Recomputed, SessionContext(Live)) = Recomputed

\* C32: when prepareAll adds records to a session that is failed or
\* canceled, the session is preparing after the next recomputation.
C32_AbsorbsFreshBatch ==
  [][(/\ lastOp'.op = "prepareAll"
      /\ session \in {"failed", "canceled"}
      /\ DOMAIN ser' # DOMAIN ser)
       => updateFromUploads(session', SessionContext(LiveNext)) = "preparing"]_vars

\* the last step was a cancel or cancelAll that left the record id canceled
JustCanceled(id) ==
  /\ lastOp.op \in {"cancel", "cancelAll"}
  /\ lastOp.op = "cancel" => lastOp.id = id
  /\ id \in DOMAIN Live
  /\ Live[id].status = "canceled"

\* C33: when a record was canceled while its transmit is in flight, the
\* progress callbacks and the settling of that transmit leave the record
\* canceled and its progress as it is.
C33_CanceledTransmitStays ==
  [][\A t \in Slots :
       (/\ tasks[t].pc = "transmit"
        /\ JustCanceled(tasks[t].id)
        /\ lastOp'.op \in {"progress", "transmitSettle"}
        /\ lastOp'.id = tasks[t].id
        /\ tasks'[t] # tasks[t] \/ lastOp'.op = "progress")
       => /\ LiveNext[tasks[t].id].status = "canceled"
          /\ LiveNext[tasks[t].id].progress = Live[tasks[t].id].progress]_vars

\* C34: when a record was canceled while its reservation is in flight, the
\* reservation response, successful or not, leaves the record canceled.
C34_CanceledReservationStays ==
  [][\A t \in Slots :
       (/\ tasks[t].pc = "reserve"
        /\ JustCanceled(tasks[t].id)
        /\ lastOp'.op = "reserveSettle"
        /\ lastOp'.id = tasks[t].id
        /\ tasks'[t] # tasks[t])
       => LiveNext[tasks[t].id].status = "canceled"]_vars

\* C35: at any time at most one transmit is in flight for a record.
C35_OneTransmitPerRecord ==
  \A t, u \in Slots :
    (/\ tasks[t].pc = "transmit"
     /\ tasks[u].pc = "transmit"
     /\ tasks[t].id = tasks[u].id) => t = u

\* C36: a record that is success stays success through startAll, retry,
\* retryAllFailed, cancel, cancelAll and every completion of an operation
\* in flight, as long as it is in the registry.
C36_SuccessIsFinal ==
  [][\A id \in DOMAIN Live :
       (/\ Live[id].status = "success"
        /\ lastOp'.op \in {"startAll", "retry", "retryAllFailed", "cancel",
                           "cancelAll"} \cup CompletionOps
        /\ id \in DOMAIN LiveNext)
       => LiveNext[id].status = "success"]_vars

\* C37: every transmit that startAll, retry or retryAllFailed starts is for
\* a record that has a remoteId and an uploadUrl.
C37_TransmitHasDestination ==
  [][lastOp'.op \in {"startAll", "retry", "retryAllFailed"} =>
       \A t \in Slots :
         (tasks[t] = FreeTask /\ tasks'[t].pc = "transmit") =>
           /\ tasks'[t].uploadUrl # Undef
           /\ tasks'[t].remoteId # Undef
           /\ LiveNext[tasks'[t].id].uploadUrl # Undef]_vars

\* C38: when the session is completed after the recomputation, every record
\* of the registry has status success.
C38_CompletedMeansAllSuccess ==
  Recomputed = "completed" =>
    \A id \in DOMAIN Live : Live[id].status = "success"

\* C39: after the recomputation canAddFiles holds of the session exactly
\* when the intake guard of addFiles and prepareAll lets a call with at
\* least one file add records.
C39_CanAddAgreesWithGuard ==
  canAddFiles(Recomputed) <=> ~uploadsStarted(Reg)

\* every event of evs is listed for the state the machine is in when it is
\* sent, starting in state
RECURSIVE Accepted(_, _)
Accepted(state, evs) ==
  \/ evs = << >>
  \/ /\ canTransition(state, Head(evs)[1])
     /\ Accepted(getNextState(state, Head(evs)[1]), Tail(evs))

\* the events the read replays for the record id
Replayed(id) ==
  IF cache[id] # NoFile
    THEN ReplayEvents(ser[id])
    ELSE <<Ev("ADD_FILE"), Ev("START_RESERVE"),
           EvP("RESERVE_ERROR", [error |-> PlaceholderMessage(ser[id].status)])>>

\* C40: the state machine of every listed record is in the state named by
\* the record's status, and every event replayed to build it is listed for
\* the state it is sent in.
C40_MachineMatchesStatus ==
  \A id \in DOMAIN Live :
    /\ Live[id].stateMachine.state = Live[id].status
    /\ Accepted("idle", Replayed(id))

\* a canceled record with its file and a success record are listed
C40_Witness ==
  /\ \E id \in DOMAIN Live :
       /\ HasPayload(id)
       /\ Live[id].status = "canceled"
       /\ Live[id].stateMachine.state = "canceled"
  /\ \E id \in DOMAIN Live :
       /\ Live[id].status = "success"
       /\ Live[id].stateMachine.state = "success"

====
